---- MODULE Spec2Model ----
(***************************************************************************)
(* Model of src/src/merkle-tree.ts: the MerkleTree class that fingerprints *)
(* an ordered list of group members, proves membership and is mutated by   *)
(* addMember / removeMember / updateGroup; of the member routes of         *)
(* src/src/routes/group.ts over the groups table (SpecGroup); and of the   *)
(* record setters of src/src/wallet-service.ts (SpecWallet).               *)
(*                                                                         *)
(* Strings are sequences of atoms.  An atom is either a plain character    *)
(* <<"c", k>> or a digest <<"H", s>>, which stands for the 64 hex          *)
(* characters that SHA-256 prints for the string s.  String concatenation  *)
(* (the + of the source) is \o.  SHA-256 is modelled as collision-free:    *)
(* two digests are equal exactly when the hashed strings are equal.        *)
(***************************************************************************)
EXTENDS Integers, Sequences, FiniteSets, TLC

\* Number of distinct user ids the callers choose from.
NumUsers == 2

\* Longest member list handed to the constructor or reached by addMember.
MaxLen == 5

\* Longest list handed to updateGroup / buildTree after construction.
MaxUpdateLen == 2

\* SpecEdit: number of distinct user ids, and the longest member list.
NumEditUsers == 3

MaxEditLen == 5

\* SpecProof: the longest member list of the tree a proof is taken from.
MaxHeldLen == 2

\* SpecVerify: the longest path of a proof value handed to verifyProof.
MaxPathLen == 2

\* SpecGroup: number of member requests sent for the one group.
NumReqs == 2

\* SpecWallet: most text records in one call, and most transactions sent.
MaxTexts == 2

MaxSent == 3

VARIABLES
  leaves,           \* MerkleTree.leaves: the ordered user ids
  root,             \* MerkleTree.root: the root node's hash, or NoRoot for null
  result,           \* the last call and its outcome: [op, arg, err, value]
  emptiedByRemove,  \* history: removeMember emptied the list and no build succeeded since
  heldProof,        \* SpecProof: a MerkleProof a caller keeps, or NoValue
  groupRow,         \* SpecGroup: the groups row of one group: [members, tree_root]
  reqs,             \* SpecGroup: the HTTP requests for that group, by request number
  walletReady,      \* SpecWallet: WalletService.wallet is not null
  sent,             \* SpecWallet: the resolver transactions broadcast so far
  walletResult,     \* SpecWallet: the last WalletService call and its outcome
  reg,              \* SpecRegister: the registerENSAndTransfer call in progress
  registryOwner     \* SpecRegister: the owner the ENS registry reports for the name

treeVars == <<leaves, root, result, emptiedByRemove, heldProof>>

groupVars == <<groupRow, reqs>>

walletVars == <<walletReady, sent, walletResult, reg, registryOwner>>

vars == <<leaves, root, result, emptiedByRemove, heldProof,
          groupRow, reqs, walletReady, sent, walletResult, reg, registryOwner>>

----------------------------------------------------------------------------
(* Values *)

\* A user id: a one-character string.
UserId(k) == << <<"c", k>> >>

Users == {UserId(k) : k \in 1..NumUsers}

\* Lists of user ids of length lo..hi (duplicates allowed).
ListsOfLen(n) == [1..n -> Users]

Lists(lo, hi) == UNION {ListsOfLen(n) : n \in lo..hi}

\* The ids and lists of SpecEdit.
EditUsers == {UserId(k) : k \in 1..NumEditUsers}

EditLists(lo, hi) == UNION {[1..n -> EditUsers] : n \in lo..hi}

\* this.root = null
NoRoot == <<>>

\* Error messages thrown by the class; NoError when the call returned.
NoError == "none"

ErrEmptyList == "Cannot build tree with empty user list"

ErrNotBuilt == "Tree has not been built yet"

ErrNotFoundInTree == "not found in tree"

ErrNotFoundInGroup == "not found in the group"

ErrAlreadyExists == "already exists in the group"

\* The value of a call that threw, or that returns void.
NoValue == <<>>

----------------------------------------------------------------------------
(* Hasher *)

\* crypto.createHash('sha256').update(data).digest('hex')
hash(data) == << <<"H", data>> >>

\* Mutant of combineHashes: only the left hash is hashed.
combineHashesLeftOnly(left, right) == hash(left)

combineHashes(left, right) == hash(left \o right)

----------------------------------------------------------------------------
(* TreeBuilder *)

\* Mutant of LeafLevel: the ids are put in sorted order before hashing.
LeafLevelSorted(userIds) ==
  LET sorted == SortSeq(userIds, LAMBDA x, y : x[1][2] < y[1][2])
  IN [i \in 1..Len(sorted) |-> hash(sorted[i])]

\* Level 0: the hash of every user id, in input order.
LeafLevel(userIds) == [i \in 1..Len(userIds) |-> hash(userIds[i])]

\* Mutant of PadLevel: the padding element is the rehashed last hash.
PadLevelRehash(level) ==
  IF Len(level) % 2 # 0 THEN Append(level, hash(level[Len(level)])) ELSE level

\* An odd level gets a copy of its last hash appended.
PadLevel(level) ==
  IF Len(level) % 2 # 0 THEN Append(level, level[Len(level)]) ELSE level

\* Mutant of PairLevel: the right hash is put before the left one.
PairLevelSwapped(level) ==
  [i \in 1..(Len(level) \div 2) |-> combineHashes(level[2 * i], level[2 * i - 1])]

\* for (i = 0; i < length; i += 2) nextLevel.push(combine(level[i], level[i+1]))
PairLevel(level) ==
  [i \in 1..(Len(level) \div 2) |-> combineHashes(level[2 * i - 1], level[2 * i])]

RECURSIVE BuildLoop(_)
\* while (currentLevel.length > 1) { pad; pair }
BuildLoop(level) ==
  IF Len(level) > 1 THEN BuildLoop(PairLevel(PadLevel(level))) ELSE level

\* Mutant of BuildRoot: the leaf level is not padded before the loop.
BuildRootNoLeafPad(userIds) == BuildLoop(LeafLevel(userIds))[1]

\* The hash of the node buildTree stores in this.root for a non-empty list.
BuildRoot(userIds) == BuildLoop(PadLevel(LeafLevel(userIds)))[1]

\* An object state is [leaves, root]; a call returns [obj, err, value].
Obj(l, r) == [leaves |-> l, root |-> r]

Ret(t, e, v) == [obj |-> t, err |-> e, value |-> v]

\* Mutant of buildTree: the list is stored before the emptiness check.
buildTreeStoreFirst(t, userIds) ==
  IF Len(userIds) = 0
  THEN Ret(Obj(userIds, t.root), ErrEmptyList, NoValue)
  ELSE Ret(Obj(userIds, BuildRoot(userIds)), NoError, NoValue)

buildTree(t, userIds) ==
  IF Len(userIds) = 0
  THEN Ret(t, ErrEmptyList, NoValue)
  ELSE Ret(Obj(userIds, BuildRoot(userIds)), NoError, NoValue)

\* new MerkleTree(userIds)
Constructor(userIds) ==
  IF Len(userIds) > 0
  THEN buildTree(Obj(<<>>, NoRoot), userIds).obj
  ELSE Obj(<<>>, NoRoot)

----------------------------------------------------------------------------
(* Queries *)

getRoot(t) ==
  IF t.root = NoRoot
  THEN Ret(t, ErrNotBuilt, NoValue)
  ELSE Ret(t, NoError, t.root)

getLeaves(t) == [i \in 1..Len(t.leaves) |-> hash(t.leaves[i])]

getUserIds(t) == [i \in 1..Len(t.leaves) |-> t.leaves[i]]

\* Array.prototype.indexOf: 0-based index of the first occurrence, or -1.
indexOf(list, x) ==
  IF \E i \in 1..Len(list) : list[i] = x
  THEN (CHOOSE i \in 1..Len(list) :
          /\ list[i] = x
          /\ \A j \in 1..(i - 1) : list[j] # x) - 1
  ELSE -1

\* Array.prototype.includes
includes(list, x) == \E i \in 1..Len(list) : list[i] = x

\* Mutant of isMember: the scan stops one entry short.
isMemberOffByOne(t, userId) ==
  \E i \in 1..(Len(t.leaves) - 1) : t.leaves[i] = userId

isMember(t, userId) == includes(t.leaves, userId)

\* Mutant of ProofPadLevel: the padding element is the level's first hash.
ProofPadLevelFirst(level) ==
  IF Len(level) % 2 # 0 THEN Append(level, level[1]) ELSE level

\* buildProofPath's own copy of the padding rule, on an array of hashes.
ProofPadLevel(level) ==
  IF Len(level) % 2 # 0 THEN Append(level, level[Len(level)]) ELSE level

\* buildProofPath's own copy of the pairing loop.
ProofPairLevel(level) ==
  [i \in 1..(Len(level) \div 2) |-> combineHashes(level[2 * i - 1], level[2 * i])]

RECURSIVE ProofLoop(_, _, _)
\* The while loop of buildProofPath; currentIndex is 0-based as in the source.
ProofLoop(currentLevel, currentIndex, proof) ==
  IF Len(currentLevel) > 1
  THEN LET level == ProofPadLevel(currentLevel)
           siblingIndex == IF currentIndex % 2 = 0
                           THEN currentIndex + 1
                           ELSE currentIndex - 1
           step == [hash |-> level[siblingIndex + 1],
                    position |-> IF currentIndex % 2 = 0 THEN "right" ELSE "left"]
           proof2 == IF siblingIndex < Len(level) THEN Append(proof, step) ELSE proof
       IN ProofLoop(ProofPairLevel(level), currentIndex \div 2, proof2)
  ELSE proof

\* Mutant of buildProofPath: the leaf level is not padded before the loop.
buildProofPathNoLeafPad(t, leafIndex) ==
  ProofLoop(getLeaves(t), leafIndex, <<>>)

buildProofPath(t, leafIndex) ==
  ProofLoop(ProofPadLevel(getLeaves(t)), leafIndex, <<>>)

\* Mutant of generateProof: a missing id is treated as index 0.
generateProofNoLookupCheck(t, userId) ==
  IF t.root = NoRoot
  THEN Ret(t, ErrNotBuilt, NoValue)
  ELSE Ret(t, NoError,
           [leaf |-> hash(userId),
            proof |-> buildProofPath(t,
                        IF indexOf(t.leaves, userId) = -1
                        THEN 0
                        ELSE indexOf(t.leaves, userId)),
            root |-> t.root])

generateProof(t, userId) ==
  IF t.root = NoRoot
  THEN Ret(t, ErrNotBuilt, NoValue)
  ELSE IF indexOf(t.leaves, userId) = -1
  THEN Ret(t, ErrNotFoundInTree, NoValue)
  ELSE Ret(t, NoError,
           [leaf |-> hash(userId),
            proof |-> buildProofPath(t, indexOf(t.leaves, userId)),
            root |-> t.root])

RECURSIVE VerifyLoop(_, _, _)
\* for (const step of proof.proof) fold from step i on
VerifyLoop(steps, i, currentHash) ==
  IF i > Len(steps)
  THEN currentHash
  ELSE VerifyLoop(steps, i + 1,
                  IF steps[i].position = "left"
                  THEN hash(steps[i].hash \o currentHash)
                  ELSE hash(currentHash \o steps[i].hash))

\* Mutant of verifyProof: the folded hash is compared with the tree's root.
verifyProofAgainstTree(proof) ==
  VerifyLoop(proof.proof, 1, proof.leaf) = root

\* Mutant of verifyProof: only the lengths of the two digests are compared.
verifyProofLengthOnly(proof) ==
  Len(VerifyLoop(proof.proof, 1, proof.leaf)) = Len(proof.root)

\* static verifyProof(proof)
verifyProof(proof) == VerifyLoop(proof.proof, 1, proof.leaf) = proof.root

\* Math.ceil(Math.log2(n)) for n >= 1: the least d with 2^d >= n.
CeilLog2(n) == CHOOSE d \in 0..n : 2^d >= n /\ \A e \in 0..(d - 1) : 2^e < n

\* Mutant of getStats: the depth is taken from the padded leaf count.
getStatsPaddedDepth(t) ==
  IF t.root = NoRoot
  THEN Ret(t, ErrNotBuilt, NoValue)
  ELSE Ret(t, NoError,
           [totalMembers |-> Len(t.leaves),
            treeDepth |-> CeilLog2(Len(PadLevel(t.leaves))),
            rootHash |-> t.root])

getStats(t) ==
  IF t.root = NoRoot
  THEN Ret(t, ErrNotBuilt, NoValue)
  ELSE Ret(t, NoError,
           [totalMembers |-> Len(t.leaves),
            treeDepth |-> CeilLog2(Len(t.leaves)),
            rootHash |-> t.root])

----------------------------------------------------------------------------
(* Mutation API *)

\* Mutant of addMember: the new id is put in front of the list.
addMemberPrepend(t, userId) ==
  IF includes(t.leaves, userId)
  THEN Ret(t, ErrAlreadyExists, NoValue)
  ELSE LET pushed == Obj(<<userId>> \o t.leaves, t.root)
       IN buildTree(pushed, pushed.leaves)

\* Mutant of addMember: the tree is not rebuilt after the push.
addMemberNoRebuild(t, userId) ==
  IF includes(t.leaves, userId)
  THEN Ret(t, ErrAlreadyExists, NoValue)
  ELSE Ret(Obj(Append(t.leaves, userId), t.root), NoError, NoValue)

\* Mutant of addMember: the id is pushed without the includes test.
addMemberNoIncludesTest(t, userId) ==
  LET pushed == Obj(Append(t.leaves, userId), t.root)
  IN buildTree(pushed, pushed.leaves)

addMember(t, userId) ==
  IF includes(t.leaves, userId)
  THEN Ret(t, ErrAlreadyExists, NoValue)
  ELSE LET pushed == Obj(Append(t.leaves, userId), t.root)
       IN buildTree(pushed, pushed.leaves)

\* this.leaves.splice(index, 1), index 0-based
splice1(list, index) ==
  [i \in 1..(Len(list) - 1) |-> IF i <= index THEN list[i] ELSE list[i + 1]]

\* Mutant of removeMember: the tree is not rebuilt after the splice.
removeMemberNoRebuild(t, userId) ==
  IF indexOf(t.leaves, userId) = -1
  THEN Ret(t, ErrNotFoundInGroup, NoValue)
  ELSE LET spliced == Obj(splice1(t.leaves, indexOf(t.leaves, userId)), t.root)
       IN IF Len(spliced.leaves) = 0
          THEN Ret(Obj(spliced.leaves, NoRoot), NoError, NoValue)
          ELSE Ret(spliced, NoError, NoValue)

\* Mutant of removeMember: an emptied list is rebuilt instead of unbuilding.
removeMemberAlwaysRebuild(t, userId) ==
  IF indexOf(t.leaves, userId) = -1
  THEN Ret(t, ErrNotFoundInGroup, NoValue)
  ELSE LET spliced == Obj(splice1(t.leaves, indexOf(t.leaves, userId)), t.root)
       IN buildTree(spliced, spliced.leaves)

\* Mutant of removeMember: every occurrence of the id is removed.
removeMemberEveryOccurrence(t, userId) ==
  IF indexOf(t.leaves, userId) = -1
  THEN Ret(t, ErrNotFoundInGroup, NoValue)
  ELSE LET kept == SelectSeq(t.leaves, LAMBDA m : m # userId)
       IN IF Len(kept) = 0
          THEN Ret(Obj(kept, NoRoot), NoError, NoValue)
          ELSE buildTree(Obj(kept, t.root), kept)

removeMember(t, userId) ==
  IF indexOf(t.leaves, userId) = -1
  THEN Ret(t, ErrNotFoundInGroup, NoValue)
  ELSE LET spliced == Obj(splice1(t.leaves, indexOf(t.leaves, userId)), t.root)
       IN IF Len(spliced.leaves) = 0
          THEN Ret(Obj(spliced.leaves, NoRoot), NoError, NoValue)
          ELSE buildTree(spliced, spliced.leaves)

\* Mutant of updateGroup: the new ids are added to the current list.
updateGroupAppend(t, userIds) == buildTree(t, t.leaves \o userIds)

updateGroup(t, userIds) == buildTree(t, userIds)

----------------------------------------------------------------------------
(* The state machine: one instance, any sequence of calls *)

tree == Obj(leaves, root)

\* The call `op` returned r: install the object state and record the outcome.
Installs(op, arg, r) ==
  /\ leaves' = r.obj.leaves
  /\ root' = r.obj.root
  /\ result' = [op |-> op, arg |-> arg, err |-> r.err, value |-> r.value]

\* No group route and no wallet call takes part.
GroupIdle == groupRow = NoValue /\ reqs = <<>>

\* No registerENSAndTransfer call takes part.
RegisterIdle == reg = NoValue /\ registryOwner = NoValue

WalletIdle ==
  /\ walletReady = FALSE
  /\ sent = <<>>
  /\ walletResult = NoValue
  /\ RegisterIdle

\* A call on the tree; what the callers keep is untouched.
Returns(op, arg, r) ==
  /\ Installs(op, arg, r)
  /\ UNCHANGED heldProof
  /\ UNCHANGED <<groupVars, walletVars>>

\* new MerkleTree(userIds) for some list of `lists`.
Constructed(lists) ==
  \E userIds \in lists :
    /\ leaves = Constructor(userIds).leaves
    /\ root = Constructor(userIds).root
    /\ result = [op |-> "constructor", arg |-> userIds, err |-> NoError, value |-> NoValue]
    /\ emptiedByRemove = FALSE
    /\ heldProof = NoValue
    /\ GroupIdle
    /\ WalletIdle

Init == Constructed(Lists(0, MaxLen))

\* A caller with the ids `ids` calls addMember; the list is kept within maxLen.
AddMemberFrom(ids, maxLen) ==
  \E userId \in ids :
    /\ Len(leaves) < maxLen \/ includes(leaves, userId)
    /\ Returns("addMember", userId, addMember(tree, userId))
    /\ emptiedByRemove' = (emptiedByRemove /\ addMember(tree, userId).err # NoError)

AddMember == AddMemberFrom(Users, MaxLen)

\* A caller with the ids `ids` calls removeMember.
RemoveMemberFrom(ids) ==
  \E userId \in ids :
    /\ Returns("removeMember", userId, removeMember(tree, userId))
    /\ emptiedByRemove' =
         IF removeMember(tree, userId).obj.leaves # leaves
         THEN Len(removeMember(tree, userId).obj.leaves) = 0
         ELSE emptiedByRemove

RemoveMember == RemoveMemberFrom(Users)

\* updateGroup with one of the lists `lists`.
UpdateGroupTo(lists) ==
  \E userIds \in lists :
    /\ Returns("updateGroup", userIds, updateGroup(tree, userIds))
    /\ emptiedByRemove' = (emptiedByRemove /\ updateGroup(tree, userIds).err # NoError)

UpdateGroup == UpdateGroupTo(Lists(0, MaxUpdateLen))

BuildTree ==
  \E userIds \in Lists(0, MaxUpdateLen) :
    /\ Returns("buildTree", userIds, buildTree(tree, userIds))
    /\ emptiedByRemove' = (emptiedByRemove /\ buildTree(tree, userIds).err # NoError)

GetRoot ==
  /\ Returns("getRoot", NoValue, getRoot(tree))
  /\ UNCHANGED emptiedByRemove

GetStats ==
  /\ Returns("getStats", NoValue, getStats(tree))
  /\ UNCHANGED emptiedByRemove

GenerateProof ==
  \E userId \in Users :
    /\ Returns("generateProof", userId, generateProof(tree, userId))
    /\ UNCHANGED emptiedByRemove

IsMember ==
  \E userId \in Users :
    /\ Returns("isMember", userId, Ret(tree, NoError, isMember(tree, userId)))
    /\ UNCHANGED emptiedByRemove

\* MerkleTree.verifyProof applied to the proof generateProof just returned.
VerifyProof ==
  /\ result.op = "generateProof"
  /\ result.err = NoError
  /\ Returns("verifyProof", result.value, Ret(tree, NoError, verifyProof(result.value)))
  /\ UNCHANGED emptiedByRemove

Next ==
  \/ AddMember
  \/ RemoveMember
  \/ UpdateGroup
  \/ BuildTree
  \/ GetRoot
  \/ GetStats
  \/ GenerateProof
  \/ IsMember
  \/ VerifyProof

Spec == Init /\ [][Next]_vars

----------------------------------------------------------------------------
(* SpecEdit: one instance built from a list over more ids, then changed     *)
(* through addMember and removeMember only.                                 *)

InitEdit == Constructed(EditLists(0, MaxEditLen))

EditAddMember == AddMemberFrom(EditUsers, MaxEditLen)

EditRemoveMember == RemoveMemberFrom(EditUsers)

NextEdit ==
  \/ EditAddMember
  \/ EditRemoveMember

SpecEdit == InitEdit /\ [][NextEdit]_vars

----------------------------------------------------------------------------
(* SpecProof: a caller keeps a proof returned by generateProof while the    *)
(* tree it came from is changed, and verifies it later.                     *)

InitProof == Constructed(Lists(0, MaxHeldLen))

\* generateProof succeeds and the caller keeps the returned proof.
HoldProof ==
  \E userId \in Users :
    /\ generateProof(tree, userId).err = NoError
    /\ Installs("generateProof", userId, generateProof(tree, userId))
    /\ heldProof' = generateProof(tree, userId).value
    /\ UNCHANGED emptiedByRemove
    /\ UNCHANGED <<groupVars, walletVars>>

\* MerkleTree.verifyProof (static) applied to the kept proof.
VerifyHeld ==
  /\ heldProof # NoValue
  /\ Returns("verifyHeld", NoValue, Ret(tree, NoError, verifyProof(heldProof)))
  /\ UNCHANGED emptiedByRemove

ProofAddMember == AddMemberFrom(Users, MaxHeldLen)

ProofRemoveMember == RemoveMemberFrom(Users)

ProofUpdateGroup == UpdateGroupTo(Lists(0, MaxHeldLen))

NextProof ==
  \/ HoldProof
  \/ VerifyHeld
  \/ ProofAddMember
  \/ ProofRemoveMember
  \/ ProofUpdateGroup

SpecProof == InitProof /\ [][NextProof]_vars

\* No id occurs twice in the list.
DupFree(list) ==
  \A i \in 1..Len(list) : \A j \in 1..Len(list) : list[i] = list[j] => i = j

----------------------------------------------------------------------------
(* SpecUnique: a tree constructed from a list without duplicates (or from   *)
(* none) and changed by addMember and removeMember only.                    *)

InitUnique ==
  Constructed({userIds \in EditLists(0, NumEditUsers) : DupFree(userIds)})

UniqueAddMember == AddMemberFrom(EditUsers, MaxEditLen)

UniqueRemoveMember == RemoveMemberFrom(EditUsers)

\* Queries read the tree between the changes.
UniqueGetRoot == GetRoot

UniqueGetStats == GetStats

NextUnique ==
  \/ UniqueAddMember
  \/ UniqueRemoveMember
  \/ UniqueGetRoot
  \/ UniqueGetStats

SpecUnique == InitUnique /\ [][NextUnique]_vars

----------------------------------------------------------------------------
(* SpecVerify: the static verifyProof applied to any proof value, whether   *)
(* or not a tree produced it.                                               *)

\* Digests of user ids, and digests of two concatenated digests.
LeafDigests == {hash(u) : u \in Users}

Combined(S, T) == {hash(a \o b) : a \in S, b \in T}

\* Digests a proof value may name as its root.
RootDigests ==
  LeafDigests
    \cup Combined(LeafDigests, LeafDigests)
    \cup Combined(Combined(LeafDigests, LeafDigests), LeafDigests)
    \cup Combined(LeafDigests, Combined(LeafDigests, LeafDigests))

\* position is typed 'left' | 'right'; any other string takes the else branch.
Positions == {"left", "right", "other"}

ProofSteps == [hash : LeafDigests, position : Positions]

\* Every MerkleProof value over these digests with a path of at most MaxPathLen.
ProofValues ==
  UNION {[leaf : LeafDigests, proof : [1..n -> ProofSteps], root : RootDigests] :
           n \in 0..MaxPathLen}

NoCall == [op |-> "none", arg |-> NoValue, err |-> NoError, value |-> NoValue]

\* A caller holds some proof value; no tree is involved.
InitVerify ==
  /\ leaves = <<>>
  /\ root = NoRoot
  /\ result = NoCall
  /\ emptiedByRemove = FALSE
  /\ heldProof \in ProofValues
  /\ GroupIdle
  /\ WalletIdle

\* MerkleTree.verifyProof(proof) for the proof value held.
VerifyAnyProof ==
  /\ result' = [op |-> "verifyProof", arg |-> heldProof, err |-> NoError,
                value |-> verifyProof(heldProof)]
  /\ UNCHANGED <<leaves, root, emptiedByRemove, heldProof>>
  /\ UNCHANGED <<groupVars, walletVars>>

NextVerify == VerifyAnyProof

SpecVerify == InitVerify /\ [][NextVerify]_vars

----------------------------------------------------------------------------
(* SpecGroup: the create and member routes of routes/group.ts for one group *)
(* name. The create handler computes the row, awaits the ENS registration   *)
(* unless it is skipped, and INSERTs. Each member handler reads the row     *)
(* with a SELECT, computes the new list in the SELECT's callback and writes *)
(* it with an UPDATE that runs later. The 400 and 500 answers (bad input,   *)
(* no wallet service, database error) touch no row and are left out.        *)

\* SQL NULL in the tree_root column.
DbNull == << <<"null", <<>> >> >>

\* No MerkleTree instance is live outside a handler's callback.
TreeIdle ==
  /\ leaves = <<>>
  /\ root = NoRoot
  /\ result = NoValue
  /\ emptiedByRemove = FALSE
  /\ heldProof = NoValue

\* updateTreeRoot(members)
updateTreeRoot(members) ==
  IF Len(members) = 0
  THEN DbNull
  ELSE getRoot(Constructor(members)).value

RECURSIVE UniqueMembers(_)
\* [...new Set(members)]: the first occurrence of every id, in order.
UniqueMembers(members) ==
  IF Len(members) = 0
  THEN <<>>
  ELSE LET init == UniqueMembers(SubSeq(members, 1, Len(members) - 1))
           last == members[Len(members)]
       IN IF includes(init, last) THEN init ELSE Append(init, last)

\* currentMembers.filter(member => member !== userId)
filterOut(members, userId) == SelectSeq(members, LAMBDA m : m # userId)

\* No row of that name is in the groups table.
NoRow == [stored |-> FALSE, members |-> <<>>, tree_root |-> DbNull]

\* Mutant of CreatedRow: the submitted list is stored as it is.
CreatedRowAsSubmitted(members) ==
  [stored |-> TRUE,
   members |-> members,
   tree_root |-> IF updateTreeRoot(members) = DbNull
                 THEN <<>>
                 ELSE updateTreeRoot(members)]

\* The row POST /group inserts for the submitted members.
CreatedRow(members) ==
  [stored |-> TRUE,
   members |-> UniqueMembers(members),
   tree_root |-> IF updateTreeRoot(UniqueMembers(members)) = DbNull
                 THEN <<>>
                 ELSE updateTreeRoot(UniqueMembers(members))]

ReqIds == 1..NumReqs

NewReq == [pc |-> "new", kind |-> "none", userId |-> NoValue,
           ownerChecked |-> FALSE, pending |-> NoValue, status |-> 0]

\* Request r is received; requests are numbered in the order they arrive.
Arrives(r) ==
  /\ reqs[r].pc = "new"
  /\ \A q \in 1..(r - 1) : reqs[q].pc # "new"

\* The table holds no row of the name, or one created earlier.
InitGroup ==
  /\ \/ groupRow = NoRow
     \/ \E members \in Lists(0, MaxUpdateLen) : groupRow = CreatedRow(members)
  /\ reqs = [r \in ReqIds |-> NewReq]
  /\ TreeIdle
  /\ WalletIdle

\* A request is answered; only what the answer tells is kept of it.
Answered(req, status) ==
  [req EXCEPT !.pc = "done", !.pending = NoValue, !.status = status,
              !.userId = IF status = 200 THEN @ ELSE NoValue]

\* POST /group arrives; the handler awaits the ENS registration, or issues
\* the INSERT at once when skipEns is set.
CreateGroup(r) ==
  \E skipEns \in BOOLEAN :
    /\ Arrives(r)
    /\ reqs' = [reqs EXCEPT ![r] = [@ EXCEPT !.pc = IF skipEns THEN "insert" ELSE "ens",
                                             !.kind = "create",
                                             !.status = 201]]
    /\ UNCHANGED groupRow
    /\ UNCHANGED <<treeVars, walletVars>>

\* isENSAvailable / registerENSAndTransfer settle; a failure is kept for the
\* answer (207) and the INSERT is issued all the same.
EnsSettled(r) ==
  \E registered \in BOOLEAN :
    /\ reqs[r].pc = "ens"
    /\ reqs' = [reqs EXCEPT ![r] = [@ EXCEPT !.pc = "insert",
                                             !.status = IF registered THEN 201 ELSE 207]]
    /\ UNCHANGED groupRow
    /\ UNCHANGED <<treeVars, walletVars>>

\* The INSERT of the row computed from the request's members runs: 409 on
\* the UNIQUE name, else the row is stored and the callback answers 201 or
\* 207. The members of the request show only here.
InsertRuns(r) ==
  \E members \in Lists(0, MaxUpdateLen) :
    /\ reqs[r].pc = "insert"
    /\ groupRow' = IF groupRow.stored THEN groupRow ELSE CreatedRow(members)
    /\ reqs' = [reqs EXCEPT ![r] =
                  Answered(@, IF groupRow.stored THEN 409 ELSE reqs[r].status)]
    /\ UNCHANGED <<treeVars, walletVars>>

\* POST /group/:name/member arrives; the handler awaits wallet.isENSOwner.
PostMember(r) ==
  /\ Arrives(r)
  /\ reqs' = [reqs EXCEPT ![r] = [@ EXCEPT !.pc = "owner", !.kind = "add"]]
  /\ UNCHANGED groupRow
  /\ UNCHANGED <<treeVars, walletVars>>

\* isENSOwner resolves: 403 when false, else the SELECT is issued.
OwnerChecked(r) ==
  \E isOwner \in BOOLEAN :
    /\ reqs[r].pc = "owner"
    /\ reqs' = [reqs EXCEPT ![r] =
                  IF isOwner
                  THEN [@ EXCEPT !.pc = "select", !.ownerChecked = TRUE]
                  ELSE Answered(@, 403)]
    /\ UNCHANGED groupRow
    /\ UNCHANGED <<treeVars, walletVars>>

\* DELETE /group/:name/member/:userId arrives; the SELECT is issued.
DeleteMember(r) ==
  /\ Arrives(r)
  /\ reqs' = [reqs EXCEPT ![r] = [@ EXCEPT !.pc = "select", !.kind = "remove"]]
  /\ UNCHANGED groupRow
  /\ UNCHANGED <<treeVars, walletVars>>

\* Mutant of AddedRow: the root is that of the list read, not of the new one.
AddedRowStaleRoot(currentMembers, userId) ==
  [members |-> Append(currentMembers, userId),
   tree_root |-> updateTreeRoot(currentMembers)]

\* updatedMembers = [...currentMembers, userId] and its newTreeRoot
AddedRow(currentMembers, userId) ==
  [members |-> Append(currentMembers, userId),
   tree_root |-> updateTreeRoot(Append(currentMembers, userId))]

\* updatedMembers = currentMembers.filter(...) and its newTreeRoot
RemovedRow(currentMembers, userId) ==
  [members |-> filterOut(currentMembers, userId),
   tree_root |-> updateTreeRoot(filterOut(currentMembers, userId))]

\* The SELECT of an add request returns the row and its callback runs: 404
\* when there is no row, 409 when the id is stored, else the UPDATE with the
\* extended list is issued. The userId of the request shows only here.
PostMemberSelected(r) ==
  \E userId \in Users :
    /\ reqs[r].pc = "select"
    /\ reqs[r].kind = "add"
    /\ reqs' = [reqs EXCEPT ![r] =
                  IF ~groupRow.stored
                  THEN Answered(@, 404)
                  ELSE IF includes(groupRow.members, userId)
                  THEN Answered(@, 409)
                  ELSE [@ EXCEPT !.pc = "update", !.userId = userId,
                                 !.pending = AddedRow(groupRow.members, userId)]]
    /\ UNCHANGED groupRow
    /\ UNCHANGED <<treeVars, walletVars>>

\* The SELECT of a remove request returns the row and its callback runs: 404
\* when there is no row or the id is not stored, else the UPDATE with the
\* filtered list is issued.
DeleteMemberSelected(r) ==
  \E userId \in Users :
    /\ reqs[r].pc = "select"
    /\ reqs[r].kind = "remove"
    /\ reqs' = [reqs EXCEPT ![r] =
                  IF ~groupRow.stored \/ ~includes(groupRow.members, userId)
                  THEN Answered(@, 404)
                  ELSE [@ EXCEPT !.pc = "update", !.userId = userId,
                                 !.pending = RemovedRow(groupRow.members, userId)]]
    /\ UNCHANGED groupRow
    /\ UNCHANGED <<treeVars, walletVars>>

\* The UPDATE of a request runs and its callback answers 200.
UpdateRuns(r) ==
  /\ reqs[r].pc = "update"
  /\ groupRow' = [groupRow EXCEPT !.members = reqs[r].pending.members,
                                  !.tree_root = reqs[r].pending.tree_root]
  /\ reqs' = [reqs EXCEPT ![r] = Answered(@, 200)]
  /\ UNCHANGED <<treeVars, walletVars>>

NextGroup ==
  \/ \E r \in ReqIds : CreateGroup(r)
  \/ \E r \in ReqIds : EnsSettled(r)
  \/ \E r \in ReqIds : InsertRuns(r)
  \/ \E r \in ReqIds : PostMember(r)
  \/ \E r \in ReqIds : OwnerChecked(r)
  \/ \E r \in ReqIds : DeleteMember(r)
  \/ \E r \in ReqIds : PostMemberSelected(r)
  \/ \E r \in ReqIds : DeleteMemberSelected(r)
  \/ \E r \in ReqIds : UpdateRuns(r)

SpecGroup == InitGroup /\ [][NextGroup]_vars

----------------------------------------------------------------------------
(* SpecWallet: the ENS record setters of wallet-service.ts. A transaction   *)
(* the resolver contract broadcasts is logged in sent; its hash is its      *)
(* position in that log. Whether the network takes a transaction is the     *)
(* environment's choice.                                                    *)

ErrWalletNotInitialized == "Wallet not initialized for ENS record operations"

ErrNoTextRecords == "No text records to set"

ErrTransactionRejected == "transaction rejected"

\* ENS names a caller passes, with and without the .eth suffix.
EnsNames == {[label |-> "group", eth |-> FALSE], [label |-> "group", eth |-> TRUE]}

TextRecords == [key : {"email", "url"}, value : {"v"}]

CoinRecords == [coin : {"ETH", "BTC"}, value : {"0xA"}]

\* if (!name.endsWith('.eth')) name = `${name}.eth`, then ethers.namehash
namehash(name) == << <<"H", [name EXCEPT !.eth = TRUE]>> >>

\* The texts of a record update, empty when the field is absent.
TextsOf(recordUpdate) ==
  IF "texts" \in DOMAIN recordUpdate THEN recordUpdate.texts ELSE <<>>

\* The setText transactions of a call that the network took, in call order.
Broadcast(recordUpdate, accepts, firstHash) ==
  LET texts == TextsOf(recordUpdate)
      taken == SelectSeq([i \in 1..Len(texts) |-> i], LAMBDA i : accepts[i])
  IN [j \in 1..Len(taken) |->
        [fn |-> "setText", node |-> namehash(recordUpdate.name),
         key |-> texts[taken[j]].key, value |-> texts[taken[j]].value,
         hash |-> firstHash + j - 1]]

\* setENSRecords(recordUpdate) with the log so far; accepts[i] tells whether
\* the i-th setText promise resolves.
setENSRecords(ready, log, recordUpdate, accepts) ==
  LET texts == TextsOf(recordUpdate)
  IN IF ~ready
     THEN [sent |-> log, err |-> ErrWalletNotInitialized, value |-> NoValue]
     ELSE IF Len(texts) = 0
     THEN [sent |-> log, err |-> ErrNoTextRecords, value |-> NoValue]
     ELSE IF \A i \in 1..Len(texts) : accepts[i]
     THEN [sent |-> log \o Broadcast(recordUpdate, accepts, Len(log) + 1),
           err |-> NoError, value |-> Len(log) + 1]
     ELSE [sent |-> log \o Broadcast(recordUpdate, accepts, Len(log) + 1),
           err |-> ErrTransactionRejected, value |-> NoValue]

\* setENSTextRecord(ensName, key, value)
setENSTextRecord(ready, log, ensName, key, value, accepts) ==
  setENSRecords(ready, log,
                [name |-> ensName, texts |-> <<[key |-> key, value |-> value]>>],
                accepts)

\* setENSTextRecords(ensName, textRecords)
setENSTextRecords(ready, log, ensName, textRecords, accepts) ==
  setENSRecords(ready, log, [name |-> ensName, texts |-> textRecords], accepts)

\* setENSCoinRecord(ensName, coin, address)
setENSCoinRecord(ready, log, ensName, coin, address, accepts) ==
  setENSRecords(ready, log,
                [name |-> ensName, coins |-> <<[coin |-> coin, value |-> address]>>],
                accepts)

Accepts == [1..MaxTexts -> BOOLEAN]

\* The outcome of a call becomes the state.
WalletReturns(op, arg, r) ==
  /\ Len(r.sent) <= MaxSent
  /\ sent' = r.sent
  /\ walletResult' = [op |-> op, arg |-> arg, err |-> r.err, value |-> r.value]
  /\ UNCHANGED walletReady
  /\ UNCHANGED <<reg, registryOwner>>
  /\ UNCHANGED <<treeVars, groupVars>>

\* new WalletService(privateKey?): with or without a private key.
InitWallet ==
  /\ walletReady \in BOOLEAN
  /\ sent = <<>>
  /\ walletResult = NoValue
  /\ RegisterIdle
  /\ TreeIdle
  /\ GroupIdle

SetENSTextRecord ==
  \E ensName \in EnsNames, t \in TextRecords, accepts \in Accepts :
    WalletReturns("setENSTextRecord", <<ensName, t>>,
                  setENSTextRecord(walletReady, sent, ensName, t.key, t.value, accepts))

SetENSTextRecords ==
  \E ensName \in EnsNames, n \in 0..MaxTexts, accepts \in Accepts :
    \E textRecords \in [1..n -> TextRecords] :
      WalletReturns("setENSTextRecords", <<ensName, textRecords>>,
                    setENSTextRecords(walletReady, sent, ensName, textRecords, accepts))

SetENSCoinRecord ==
  \E ensName \in EnsNames, c \in CoinRecords, accepts \in Accepts :
    WalletReturns("setENSCoinRecord", <<ensName, c>>,
                  setENSCoinRecord(walletReady, sent, ensName, c.coin, c.value, accepts))

NextWallet ==
  \/ SetENSTextRecord
  \/ SetENSTextRecords
  \/ SetENSCoinRecord

SpecWallet == InitWallet /\ [][NextWallet]_vars

----------------------------------------------------------------------------
(* SpecRegister: WalletService.registerENSAndTransfer as the sequence of    *)
(* its awaits. reg.steps lists the steps that have finished, the failed one *)
(* last. Whether a transaction or a registry read succeeds, and when the    *)
(* registry shows the new owner, is the environment's choice. Each poll     *)
(* settles (the read is caught, the 2 s timer fires), hence WF on the poll. *)

maxAttempts == 30

ErrRegisterNotInitialized ==
  "Wallet and provider must be initialized for ENS registration and transfer"

ErrRegistrationFailed == "registerENS rejected"

ErrNotConfirmed == "registrationTx.wait rejected"

ErrNotPropagated == "ENS registration did not propagate"

ErrInvalidNewOwner == "Invalid new owner address"

ErrNotRegistered == "is not registered or not found in registry"

ErrOnlyOwner == "Only the current owner can transfer ENS ownership"

RootTextKey == "sema:group:root"

\* The steps of the call, in the order of the code.
StepOrder == <<"register", "confirm", "owned", "setText", "transfer">>

\* Registry owners: nobody (zero address), the service wallet, or an address.
ZeroAddress == "0x0"

WalletAddress == "wallet"

\* getENSOwner's null.
NullOwner == "null"

\* Target addresses a caller passes; ethers.isAddress rejects the second.
TargetAddresses == {[addr |-> "0xOwner", isAddress |-> TRUE],
                    [addr |-> "0xZZ", isAddress |-> FALSE]}

\* Tree roots the create route passes: '' or the root of the members.
TreeRoots == {CreatedRow(members).tree_root : members \in Lists(0, 1)}

IdleReg == [pc |-> "idle", ensName |-> NoValue, targetAddress |-> NoValue,
            treeRoot |-> NoValue, attempts |-> 0, steps |-> <<>>,
            err |-> NoError, value |-> NoValue]

\* A step finished; the call goes on at pc.
StepDone(r, step, pc) == [r EXCEPT !.pc = pc, !.steps = Append(@, step)]

\* A step threw; the catch block rethrows and the call rejects.
StepFailed(r, step, err) ==
  [r EXCEPT !.pc = "rejected", !.steps = Append(@, step), !.err = err]

\* getENSOwner: null for the zero address and for a failed read.
getENSOwner(owner, readOk) ==
  IF ~readOk \/ owner = ZeroAddress THEN NullOwner ELSE owner

\* One round of the loop without the attempts limit.
PollRoundNoLimit(r, currentOwner) ==
  IF currentOwner # NullOwner /\ currentOwner = WalletAddress
  THEN StepDone(r, "owned", "setText")
  ELSE r

\* One round of the while loop, given what getENSOwner returned.
PollRound(r, currentOwner) ==
  IF currentOwner # NullOwner /\ currentOwner = WalletAddress
  THEN StepDone(r, "owned", "setText")
  ELSE IF r.attempts + 1 >= maxAttempts
  THEN StepFailed([r EXCEPT !.attempts = @ + 1], "owned", ErrNotPropagated)
  ELSE [r EXCEPT !.attempts = @ + 1]

InitRegister ==
  /\ walletReady \in BOOLEAN
  /\ sent = <<>>
  /\ walletResult = NoValue
  /\ reg = IdleReg
  /\ registryOwner = ZeroAddress
  /\ TreeIdle
  /\ GroupIdle

\* The rest of the state while the call only moves on.
RegisterStep ==
  /\ UNCHANGED <<walletReady, walletResult>>
  /\ UNCHANGED <<treeVars, groupVars>>

\* registerENSAndTransfer(ensName, targetAddress, 1, treeRoot) is called.
RegisterENSAndTransfer ==
  \E ensName \in EnsNames, targetAddress \in TargetAddresses, treeRoot \in TreeRoots :
    /\ reg.pc = "idle"
    /\ reg' = IF ~walletReady
              THEN [reg EXCEPT !.pc = "rejected", !.err = ErrRegisterNotInitialized,
                               !.ensName = ensName, !.targetAddress = targetAddress,
                               !.treeRoot = treeRoot]
              ELSE [reg EXCEPT !.pc = "register", !.ensName = ensName,
                               !.targetAddress = targetAddress, !.treeRoot = treeRoot]
    /\ UNCHANGED <<sent, registryOwner>>
    /\ RegisterStep

\* await this.registerENS(...): the registration transaction is sent, or not.
RegisterENS ==
  \E ok \in BOOLEAN :
    /\ reg.pc = "register"
    /\ reg' = IF ok
              THEN StepDone(reg, "register", "confirm")
              ELSE StepFailed(reg, "register", ErrRegistrationFailed)
    /\ UNCHANGED <<sent, registryOwner>>
    /\ RegisterStep

\* await registrationTx.wait(): confirmed, or reverted.
RegistrationConfirmed ==
  \E ok \in BOOLEAN :
    /\ reg.pc = "confirm"
    /\ reg' = IF ok
              THEN StepDone(reg, "confirm", "polling")
              ELSE StepFailed(reg, "confirm", ErrNotConfirmed)
    /\ UNCHANGED <<sent, registryOwner>>
    /\ RegisterStep

\* The registration transaction was sent and has not failed.
RegistrationSent ==
  /\ Len(reg.steps) >= 1
  /\ reg.steps[1] = "register"
  /\ ~(reg.pc = "rejected" /\ Len(reg.steps) <= 2)

\* The registry comes to report the service wallet as the owner.
RegistryPropagates ==
  /\ RegistrationSent
  /\ registryOwner = ZeroAddress
  /\ registryOwner' = WalletAddress
  /\ UNCHANGED <<reg, sent>>
  /\ RegisterStep

\* One round of the polling loop.
PollRegistry ==
  \E readOk \in BOOLEAN :
    /\ reg.pc = "polling"
    /\ reg' = PollRound(reg, getENSOwner(registryOwner, readOk))
    /\ UNCHANGED <<sent, registryOwner>>
    /\ RegisterStep

\* await this.setENSTextRecord(ensName, 'sema:group:root', treeRoot)
SetRootTextRecord ==
  \E accepts \in Accepts :
    LET r == setENSTextRecord(walletReady, sent, reg.ensName, RootTextKey,
                              reg.treeRoot, accepts)
    IN /\ reg.pc = "setText"
       /\ sent' = r.sent
       /\ reg' = IF r.err = NoError
                 THEN StepDone(reg, "setText", "transfer")
                 ELSE StepFailed(reg, "setText", r.err)
       /\ UNCHANGED registryOwner
       /\ RegisterStep

\* await this.transferENSOwnership(ensName, targetAddress)
TransferOwnership ==
  \E readOk \in BOOLEAN, txOk \in BOOLEAN :
    LET currentOwner == getENSOwner(registryOwner, readOk)
        err == IF ~reg.targetAddress.isAddress THEN ErrInvalidNewOwner
               ELSE IF currentOwner = NullOwner THEN ErrNotRegistered
               ELSE IF currentOwner # WalletAddress THEN ErrOnlyOwner
               ELSE IF ~txOk THEN ErrTransactionRejected
               ELSE NoError
    IN /\ reg.pc = "transfer"
       /\ reg' = IF err = NoError
                 THEN [StepDone(reg, "transfer", "resolved") EXCEPT
                         !.value = [registrationTx |-> "registerTx",
                                    transferTx |-> "setOwnerTx"]]
                 ELSE StepFailed(reg, "transfer", err)
       /\ registryOwner' = IF err = NoError THEN reg.targetAddress.addr
                           ELSE registryOwner
       /\ UNCHANGED sent
       /\ RegisterStep

NextRegister ==
  \/ RegisterENSAndTransfer
  \/ RegisterENS
  \/ RegistrationConfirmed
  \/ RegistryPropagates
  \/ PollRegistry
  \/ SetRootTextRecord
  \/ TransferOwnership

SpecRegister == InitRegister /\ [][NextRegister]_vars /\ WF_vars(PollRegistry)

----------------------------------------------------------------------------
(* Properties *)

\* Digests a forger may put in place of a field of the proof p: every digest
\* of p, every leaf digest, every combination of two leaf digests, and the
\* digest of the empty string.
DigestPool(p) ==
  {p.root, p.leaf, hash(<<>>)}
    \cup {p.proof[i].hash : i \in 1..Len(p.proof)}
    \cup {hash(u) : u \in Users}
    \cup {combineHashes(hash(u), hash(v)) : u \in Users, v \in Users}

\* C1: in every built state, for every id in the member list, the proof that
\* generateProof returns for it is accepted by verifyProof.
C1_RoundTrip ==
  root # NoRoot =>
    \A i \in 1..Len(leaves) :
      /\ generateProof(tree, leaves[i]).err = NoError
      /\ verifyProof(generateProof(tree, leaves[i]).value)

\* C1 witness: verifyProof has answered true for a proof of a five-member tree.
C1_Witness ==
  /\ result.op = "verifyProof"
  /\ result.value = TRUE
  /\ Len(leaves) = 5

\* C2: in every built state, whatever calls led to it, getRoot() is the root
\* of a fresh tree constructed from getUserIds().
C2_RootIsFunctionOfList ==
  root # NoRoot =>
    getRoot(tree) = Ret(tree, NoError, Constructor(getUserIds(tree)).root)

\* C2 witness: a built tree whose last call was a successful removeMember.
C2_Witness ==
  /\ result.op = "removeMember"
  /\ result.err = NoError
  /\ root # NoRoot

\* C3: a proof returned by generateProof stops verifying when its root, or
\* the hash of any one of its steps, is replaced by a different digest.
C3_TamperDetected ==
  (result.op = "generateProof" /\ result.err = NoError) =>
    LET p == result.value IN
      \A d \in DigestPool(p) :
        /\ d # p.root => ~verifyProof([p EXCEPT !.root = d])
        /\ \A i \in 1..Len(p.proof) :
             d # p.proof[i].hash =>
               ~verifyProof([p EXCEPT !.proof[i].hash = d])

\* C3 witness: generateProof has returned a proof with three steps.
C3_Witness ==
  /\ result.op = "generateProof"
  /\ result.err = NoError
  /\ Len(result.value.proof) = 3

\* C4: for every id, isMember(id) is true exactly when id occurs in the list
\* getUserIds() returns, and an isMember call answers just that.
C4_MembershipAccuracy ==
  /\ \A id \in Users :
       isMember(tree, id) <=>
         \E i \in 1..Len(getUserIds(tree)) : getUserIds(tree)[i] = id
  /\ result.op = "isMember" =>
       (result.value <=>
          \E i \in 1..Len(getUserIds(tree)) : getUserIds(tree)[i] = result.arg)

\* C4 witness: isMember has answered false on a built tree.
C4_Witness ==
  /\ result.op = "isMember"
  /\ result.value = FALSE
  /\ root # NoRoot

MutationOps == {"addMember", "removeMember", "updateGroup", "buildTree"}

\* C5: a mutation that raises an error leaves the member list, its order and
\* the root (or the unbuilt status) as they were before the call.
C5_FailedMutationAtomic ==
  [][(result'.op \in MutationOps /\ result'.err # NoError) =>
        (leaves' = leaves /\ root' = root)]_vars

\* C5 witness: addMember has raised 'already exists' on a built tree.
C5_Witness ==
  /\ result.op = "addMember"
  /\ result.err = ErrAlreadyExists
  /\ root # NoRoot

\* C6: once removeMember has removed the last member, and until a build
\* succeeds, getRoot, getStats and generateProof of every id raise 'not
\* built', getUserIds() is empty and isMember is false for every id.
C6_UnbuiltAfterLastRemoval ==
  emptiedByRemove =>
    /\ getRoot(tree).err = ErrNotBuilt
    /\ getStats(tree).err = ErrNotBuilt
    /\ \A id \in Users : generateProof(tree, id).err = ErrNotBuilt
    /\ getUserIds(tree) = <<>>
    /\ \A id \in Users : ~isMember(tree, id)
    /\ result.op \in {"getRoot", "getStats", "generateProof"} =>
         result.err = ErrNotBuilt

\* C6 witness: getRoot has raised 'not built' after the last member was removed.
C6_Witness ==
  /\ emptiedByRemove
  /\ result.op = "getRoot"
  /\ result.err = ErrNotBuilt

\* C7: generateProof(id) on a built tree that does not hold id raises 'not
\* found', returns no proof and leaves the member list and the root unchanged.
C7_ProofOfNonMember ==
  [][(result'.op = "generateProof" /\ root # NoRoot
        /\ ~isMember(tree, result'.arg)) =>
        (/\ result'.err = ErrNotFoundInTree
         /\ result'.value = NoValue
         /\ leaves' = leaves
         /\ root' = root)]_vars

\* C7 witness: generateProof has raised 'not found' on a built tree.
C7_Witness ==
  /\ result.op = "generateProof"
  /\ result.err = ErrNotFoundInTree
  /\ root # NoRoot

\* C8: a tree with exactly one member id has root H(H(id) || H(id)), which is
\* not the leaf digest H(id).
C8_SingleMemberRoot ==
  Len(leaves) = 1 =>
    /\ getRoot(tree).err = NoError
    /\ getRoot(tree).value = hash(hash(leaves[1]) \o hash(leaves[1]))
    /\ getRoot(tree).value # hash(leaves[1])

\* C8 witness: addMember on an unbuilt tree has produced a one-member tree.
C8_Witness ==
  /\ result.op = "addMember"
  /\ result.err = NoError
  /\ Len(leaves) = 1

\* C9: the root of an odd-length member list equals the root of the tree
\* built from the list with its last member appended once more.
C9_OddPaddingEquivalence ==
  (root # NoRoot /\ Len(leaves) % 2 = 1) =>
    getRoot(tree).value =
      getRoot(Constructor(Append(leaves, leaves[Len(leaves)]))).value

\* C9 witness: a tree built from three members.
C9_Witness ==
  /\ result.op = "constructor"
  /\ Len(leaves) = 3
  /\ root # NoRoot

BuildOps == {"constructor", "updateGroup", "buildTree"}

\* C10: the tree just built from a member list has a root different from that
\* of the tree built from any other list of the same length (one that differs
\* in some position); in particular from the reversed list, when the first
\* and last members differ.  The list is stored in the order given.
C10_OrderSensitive ==
  (result.op \in BuildOps /\ result.err = NoError /\ Len(result.arg) > 0) =>
    /\ getUserIds(tree) = result.arg
    /\ \A other \in ListsOfLen(Len(result.arg)) :
         other # result.arg => Constructor(other).root # getRoot(tree).value

\* C10 witness: a three-member tree whose first and last members differ.
C10_Witness ==
  /\ result.op = "constructor"
  /\ Len(leaves) = 3
  /\ leaves[1] # leaves[3]
  /\ root # NoRoot

\* C11 as stated: the tree built from a non-empty list has a root different
\* from that of the tree built from any other non-empty list.
C11_AnyOtherListOtherRoot ==
  (result.op = "constructor" /\ Len(result.arg) > 0) =>
    \A other \in EditLists(1, MaxEditLen) :
      other # result.arg => Constructor(other).root # getRoot(tree).value

\* C11 amended: the tree built from a non-empty list without duplicates has a
\* root different from that of the tree built from any other non-empty list
\* without duplicates, whatever the two lengths.
C11_DupFreeListsOtherRoot ==
  (result.op = "constructor" /\ Len(result.arg) > 0 /\ DupFree(result.arg)) =>
    \A other \in {l \in EditLists(1, MaxEditLen) : DupFree(l)} :
      other # result.arg => Constructor(other).root # getRoot(tree).value

\* C11 witness: a tree built from three different members.
C11_Witness ==
  /\ result.op = "constructor"
  /\ Len(result.arg) = 3
  /\ DupFree(result.arg)
  /\ root # NoRoot

\* C12: a proof obtained from generateProof verifies true after every later
\* addMember / removeMember / updateGroup on the tree it came from, also when
\* the proved member is gone or the tree is unbuilt, and a verifyProof call
\* changes neither the member list nor the root.
C12_VerifyIsStateless ==
  [][/\ heldProof' # NoValue => verifyProof(heldProof)'
     /\ result'.op = "verifyHeld" =>
          (result'.value = TRUE /\ leaves' = leaves /\ root' = root)]_vars

\* C12 witness: the kept proof has verified true on a tree that became unbuilt.
C12_Witness ==
  /\ result.op = "verifyHeld"
  /\ result.value = TRUE
  /\ heldProof # NoValue
  /\ root = NoRoot

RECURSIVE BuilderLevels(_)
\* The levels buildTree pairs, each as padded, from the leaf level up.
BuilderLevels(level) ==
  IF Len(level) > 1
  THEN <<PadLevel(level)>> \o BuilderLevels(PairLevel(PadLevel(level)))
  ELSE <<>>

\* C13: generateProof(id) returns leaf = H(id), root = getRoot(), and one
\* step per level of the builder's schedule for idx = first index of id: the
\* digest at idx+1 with 'right' when idx is even, the digest at idx-1 with
\* 'left' when idx is odd, idx halving (rounded down) from level to level.
C13_ProofReplaysBuilder ==
  (result.op = "generateProof" /\ result.err = NoError) =>
    LET p == result.value
        levels == BuilderLevels(PadLevel(LeafLevel(leaves)))
        first == CHOOSE i \in 1..Len(leaves) :
                   /\ leaves[i] = result.arg
                   /\ \A j \in 1..(i - 1) : leaves[j] # result.arg
        idx(k) == (first - 1) \div (2 ^ (k - 1))
    IN /\ p.leaf = hash(result.arg)
       /\ p.root = getRoot(tree).value
       /\ Len(p.proof) = Len(levels)
       /\ \A k \in 1..Len(levels) :
            IF idx(k) % 2 = 0
            THEN p.proof[k] = [hash |-> levels[k][idx(k) + 2], position |-> "right"]
            ELSE p.proof[k] = [hash |-> levels[k][idx(k)], position |-> "left"]

\* C13 witness: a proof for the last of five members, whose leaf is padded.
C13_Witness ==
  /\ result.op = "generateProof"
  /\ result.err = NoError
  /\ Len(leaves) = 5
  /\ leaves[5] = result.arg
  /\ \A j \in 1..4 : leaves[j] # result.arg

\* C14: getStats() on a built tree with n members returns totalMembers = n,
\* rootHash = getRoot() and treeDepth = the least d with 2^d >= n, counted
\* on the un-padded n: 0 for 1, 1 for 2, 2 for 3 and 4, 3 for 5 to 8.
C14_Stats ==
  root # NoRoot =>
    LET st == getStats(tree)
        n == Len(getUserIds(tree))
        d == st.value.treeDepth
    IN /\ st.err = NoError
       /\ st.value.totalMembers = n
       /\ st.value.rootHash = getRoot(tree).value
       /\ 2 ^ d >= n
       /\ d = 0 \/ 2 ^ (d - 1) < n
       /\ n = 1 => d = 0
       /\ n = 2 => d = 1
       /\ n \in {3, 4} => d = 2
       /\ n \in 5..8 => d = 3
       /\ result.op = "getStats" => result.value = st.value

\* C14 witness: getStats has answered depth 2 for three members.
C14_Witness ==
  /\ result.op = "getStats"
  /\ result.err = NoError
  /\ result.value.totalMembers = 3
  /\ result.value.treeDepth = 2

\* C15: addMember(id) with id not present succeeds, appends id as the last
\* element, keeps the earlier members at their indices, and leaves the root
\* of a tree built from the new list; on an unbuilt tree it yields a built
\* one-member tree.
C15_AddAppends ==
  [][(result'.op = "addMember" /\ ~isMember(tree, result'.arg)) =>
       (/\ result'.err = NoError
        /\ Len(leaves') = Len(leaves) + 1
        /\ leaves'[Len(leaves')] = result'.arg
        /\ \A i \in 1..Len(leaves) : leaves'[i] = leaves[i]
        /\ root' # NoRoot
        /\ root' = Constructor(leaves').root
        /\ root = NoRoot => leaves' = <<result'.arg>>)]_vars

\* C15 witness: addMember has appended a fourth member.
C15_Witness ==
  /\ result.op = "addMember"
  /\ result.err = NoError
  /\ Len(leaves) = 4
  /\ leaves[4] = result.arg

\* C16: after a successful addMember on a built tree, duplicates in its list
\* or not, getRoot() differs from its value before the call.
C16_RootChangesOnAdd ==
  [][(result'.op = "addMember" /\ result'.err = NoError /\ root # NoRoot) =>
       (getRoot(tree)'.err = NoError
          /\ getRoot(tree)'.value # getRoot(tree).value)]_vars

\* C16 witness: a member has been added to a list that holds another id twice.
C16_Witness ==
  /\ result.op = "addMember"
  /\ result.err = NoError
  /\ Len(leaves) >= 3
  /\ ~DupFree(leaves)

\* Number of entries of the list equal to x.
Count(list, x) == Cardinality({i \in 1..Len(list) : list[i] = x})

\* C17 as stated: after a successful removeMember on a tree with at least two
\* entries, duplicates or not, getRoot() differs from its value before.
C17_RootChangesOnRemove ==
  [][(result'.op = "removeMember" /\ result'.err = NoError /\ Len(leaves) >= 2) =>
       getRoot(tree)'.value # getRoot(tree).value]_vars

\* C17 amended: after a successful removeMember(id) on a tree with at least
\* two entries in which id occurs exactly once (other ids may repeat),
\* getRoot() differs from its value before the call.
C17_RootChangesOnRemoveOfSingle ==
  [][(result'.op = "removeMember" /\ result'.err = NoError /\ Len(leaves) >= 2
        /\ Count(leaves, result'.arg) = 1) =>
       (getRoot(tree)'.err = NoError
          /\ getRoot(tree)'.value # getRoot(tree).value)]_vars

\* C17 witness: an id that occurred once has been removed from a list that
\* holds another id twice.
C17_Witness ==
  /\ result.op = "removeMember"
  /\ result.err = NoError
  /\ ~isMember(tree, result.arg)
  /\ ~DupFree(leaves)

\* C18: updateGroup(ids) with non-empty ids succeeds whether or not ids has
\* duplicates; afterwards getUserIds() is ids and the root is that of a fresh
\* build of ids.
C18_UpdateReplaces ==
  (result.op = "updateGroup" /\ Len(result.arg) > 0) =>
    /\ result.err = NoError
    /\ getUserIds(tree) = result.arg
    /\ getRoot(tree) = Ret(tree, NoError, Constructor(result.arg).root)

\* C18 witness: updateGroup has installed a list that holds an id twice.
C18_Witness ==
  /\ result.op = "updateGroup"
  /\ result.err = NoError
  /\ Len(result.arg) = 2
  /\ ~DupFree(result.arg)

\* No request is between its arrival and its answer.
Quiescent == \A r \in ReqIds : reqs[r].pc \in {"new", "done"}

\* C19: once every request is answered, each member request answered with
\* success whose user id no other successful request names is reflected in
\* the stored list: an added id is stored, a removed id is not.
C19_NoLostUpdate ==
  Quiescent =>
    \A r \in ReqIds :
      (/\ reqs[r].status = 200
       /\ \A q \in ReqIds \ {r} : reqs[q].userId # reqs[r].userId) =>
        /\ reqs[r].kind = "add" => includes(groupRow.members, reqs[r].userId)
        /\ reqs[r].kind = "remove" => ~includes(groupRow.members, reqs[r].userId)

\* C20: setENSCoinRecord on an initialized wallet, unless the network rejects
\* its transaction, resolves with the hash of a transaction it has just
\* broadcast that sets the record of that coin.
C20_CoinRecordIsSet ==
  [][(/\ walletResult'.op = "setENSCoinRecord"
      /\ walletReady
      /\ walletResult'.err # ErrTransactionRejected) =>
       /\ walletResult'.err = NoError
       /\ Len(sent') > Len(sent)
       /\ \E i \in (Len(sent) + 1)..Len(sent') :
            /\ sent'[i].hash = walletResult'.value
            /\ sent'[i].key = walletResult'.arg[2].coin
            /\ sent'[i].value = walletResult'.arg[2].value]_vars

\* The root text record of the call in progress has been broadcast.
RootTextSubmitted ==
  \E i \in 1..Len(sent) :
    /\ sent[i].fn = "setText"
    /\ sent[i].node = namehash(reg.ensName)
    /\ sent[i].key = RootTextKey
    /\ sent[i].value = reg.treeRoot

\* The steps finished so far are the first steps of the code's order, a
\* rejected call's last step being the one that failed; at most maxAttempts
\* polls were made; the owner is the target only after the root text record.
RegisterInOrder ==
  /\ Len(reg.steps) <= Len(StepOrder)
  /\ \A i \in 1..Len(reg.steps) : reg.steps[i] = StepOrder[i]
  /\ reg.attempts <= maxAttempts
  /\ (reg.pc = "rejected" /\ reg.err = ErrNotPropagated) =>
       (reg.attempts = maxAttempts /\ Len(reg.steps) = 3)
  /\ reg.pc = "resolved" => reg.steps = StepOrder
  /\ (\E i \in 1..Len(reg.steps) : reg.steps[i] = "transfer") => RootTextSubmitted
  /\ registryOwner \notin {ZeroAddress, WalletAddress} => RootTextSubmitted

\* C21: registerENSAndTransfer performs register, confirm, owner observed
\* (at most 30 polls, then rejection), root text record, transfer in this
\* order; once a step has failed nothing more is done; the owner becomes the
\* target only after the root text record was submitted; and the polling
\* loop always ends.
C21_RegisterStepsInOrder ==
  /\ []RegisterInOrder
  /\ [][reg.pc = "rejected" =>
          /\ UNCHANGED <<reg, sent>>
          /\ registryOwner' \in {registryOwner, WalletAddress}]_vars
  /\ (reg.pc = "polling") ~> (reg.pc # "polling")

\* C21 witness: the call resolved after polls that did not see the owner.
C21_Witness ==
  /\ reg.pc = "resolved"
  /\ reg.attempts > 0
  /\ registryOwner = reg.targetAddress.addr

\* The reference schedule's next level: element i is H(left || right) of the
\* elements 2i-1 and 2i, the last element standing in for a missing right one.
RefNextLevel(level) ==
  LET at(j) == IF j <= Len(level) THEN level[j] ELSE level[Len(level)]
  IN [i \in 1..((Len(level) + 1) \div 2) |-> hash(at(2 * i - 1) \o at(2 * i))]

RECURSIVE RefReduce(_)
\* Levels are combined until one digest remains.
RefReduce(level) ==
  IF Len(level) = 1 THEN level[1] ELSE RefReduce(RefNextLevel(level))

\* The reference root of a non-empty member list.
RefRoot(members) ==
  RefReduce(RefNextLevel([i \in 1..Len(members) |-> hash(members[i])]))

\* C22: in every built state the stored root is the root of the reference
\* schedule for the stored list: leaf digests in input order, an odd level
\* (the leaf level included) completed by a copy of its last digest, adjacent
\* pairs combined as H(left || right), until one digest remains.
C22_ReferenceSchedule ==
  root # NoRoot => root = RefRoot(leaves)

\* C22 witness: a build of five members, odd at the leaf level and again at
\* the level of three.
C22_Witness ==
  /\ result.op \in BuildOps
  /\ result.err = NoError
  /\ Len(leaves) = 5
  /\ root = RefRoot(leaves)

RECURSIVE RefFold(_, _)
\* The fold of a path onto a leaf digest, last step outermost.
RefFold(leaf, steps) ==
  IF Len(steps) = 0
  THEN leaf
  ELSE LET acc == RefFold(leaf, SubSeq(steps, 1, Len(steps) - 1))
           step == steps[Len(steps)]
       IN IF step.position = "left"
          THEN hash(step.hash \o acc)
          ELSE hash(acc \o step.hash)

\* C23: verifyProof(p) is true exactly when the fold of p.proof onto p.leaf,
\* H(step.hash || acc) for 'left' and H(acc || step.hash) otherwise, equals
\* p.root, for every proof value.
C23_VerifyIsTheFold ==
  result.op = "verifyProof" =>
    (result.value = TRUE <=> RefFold(result.arg.leaf, result.arg.proof) = result.arg.root)

\* C23 witness: a proof value with an empty path is accepted, its leaf being
\* its root.
C23_Witness ==
  /\ result.op = "verifyProof"
  /\ Len(result.arg.proof) = 0
  /\ result.arg.leaf = result.arg.root
  /\ result.value = TRUE

\* C24: in every built state with n members, the path of the proof of every
\* member has as many steps as buildTree has combine levels: 1 for n = 1 and
\* the least d with 2^d >= n for n >= 2 (2 for 4 members); this is
\* getStats().treeDepth for n >= 2, is 1 where treeDepth is 0 for n = 1, and
\* is never 0.
C24_ProofLength ==
  root # NoRoot =>
    LET n == Len(leaves)
        depth == getStats(tree).value.treeDepth
        combineLevels == Len(BuilderLevels(PadLevel(LeafLevel(leaves))))
    IN \A i \in 1..n :
         LET steps == Len(generateProof(tree, leaves[i]).value.proof)
         IN /\ steps = combineLevels
            /\ steps > 0
            /\ n = 1 => (steps = 1 /\ depth = 0)
            /\ n >= 2 => (steps = depth /\ 2 ^ steps >= n /\ 2 ^ (steps - 1) < n)
            /\ n = 4 => steps = 2
            /\ (result.op = "generateProof" /\ result.arg = leaves[i]) =>
                 Len(result.value.proof) = steps

\* C24 witness: generateProof has answered with one step for the only member
\* of a tree.
C24_Witness ==
  /\ result.op = "generateProof"
  /\ result.err = NoError
  /\ Len(leaves) = 1
  /\ Len(result.value.proof) = 1

\* C25: a successful removeMember(id) leaves the list without the first
\* entry equal to id and with every other entry in place and order; when id
\* was held more than once, the list is one entry shorter, isMember(id) is
\* still true and generateProof(id) still succeeds.
C25_RemovesFirstOccurrenceOnly ==
  [][(result'.op = "removeMember" /\ result'.err = NoError) =>
       LET id == result'.arg
           first == CHOOSE i \in 1..Len(leaves) :
                      leaves[i] = id /\ \A j \in 1..(i - 1) : leaves[j] # id
       IN /\ Len(leaves') = Len(leaves) - 1
          /\ \A i \in 1..(first - 1) : leaves'[i] = leaves[i]
          /\ \A i \in first..Len(leaves') : leaves'[i] = leaves[i + 1]
          /\ Count(leaves, id) > 1 =>
               /\ Count(leaves', id) = Count(leaves, id) - 1
               /\ isMember(Obj(leaves', root'), id)
               /\ generateProof(Obj(leaves', root'), id).err = NoError
               /\ verifyProof(generateProof(Obj(leaves', root'), id).value)]_vars

\* C25 witness: removeMember has succeeded for an id that is still held,
\* between two other entries.
C25_Witness ==
  /\ result.op = "removeMember"
  /\ result.err = NoError
  /\ isMember(tree, result.arg)
  /\ Len(leaves) >= 3
  /\ \E i \in 2..(Len(leaves) - 1) : leaves[i] = result.arg /\ leaves[1] # result.arg

\* C26: a tree constructed empty or from a duplicate-free list and changed
\* only by addMember and removeMember holds no id twice in any reachable
\* state.
C26_MutationApiKeepsUnique ==
  DupFree(leaves)

\* C26 witness: addMember of an id the list holds was refused, the list
\* holding every id once.
C26_Witness ==
  /\ result.op = "addMember"
  /\ result.err = ErrAlreadyExists
  /\ Len(leaves) = NumEditUsers
  /\ DupFree(leaves)

\* C27: in every reachable state the tree has a root, and getRoot()
\* succeeds, exactly when the member list is not empty; the constructor
\* called with no members raises nothing and leaves the tree unbuilt.
C27_BuiltIffNonEmpty ==
  /\ root # NoRoot <=> Len(leaves) > 0
  /\ getRoot(tree).err = NoError <=> Len(leaves) > 0
  /\ (result.op = "constructor" /\ Len(result.arg) = 0) =>
       (result.err = NoError /\ root = NoRoot /\ Len(leaves) = 0)

\* C27 witness: updateGroup with an empty list has failed on a built tree,
\* which still has its members and its root.
C27_Witness ==
  /\ result.op = "updateGroup"
  /\ result.err = ErrEmptyList
  /\ Len(leaves) > 0
  /\ root # NoRoot

\* C28: in every reachable state of the group store, a stored row with a
\* non-empty member list has as tree_root the Merkle root of exactly that
\* list in its stored order, and a stored row with an empty list has
\* tree_root '' or null; every write in flight carries such a pair too.
C28_StoredRootConsistent ==
  LET Consistent(row) ==
        IF Len(row.members) > 0
        THEN row.tree_root = RefRoot(row.members)
        ELSE row.tree_root \in {<<>>, DbNull}
  IN /\ groupRow.stored => Consistent(groupRow)
     /\ \A r \in ReqIds : reqs[r].pc = "update" => Consistent(reqs[r].pending)

\* C28 witness: both of two interleaved member requests have written, one
\* overwriting the other, and the row is stored with members.
C28_Witness ==
  /\ groupRow.stored
  /\ Len(groupRow.members) > 0
  /\ \E r \in ReqIds, q \in ReqIds :
       /\ r # q
       /\ reqs[r].status = 200
       /\ reqs[q].status = 200
       /\ reqs[r].kind = "add"
       /\ reqs[q].kind = "remove"
       /\ reqs[r].userId # reqs[q].userId
       /\ includes(groupRow.members, reqs[q].userId)

\* C29: the member list stored for the group, and every list a request is
\* about to write, holds no user id twice, whatever the interleaving of the
\* create, add-member and remove-member requests.
C29_StoredMembersUnique ==
  /\ DupFree(groupRow.members)
  /\ \A r \in ReqIds : reqs[r].pc = "update" => DupFree(reqs[r].pending.members)

\* C29 witness: two add requests for the same id were both answered with
\* success, and the id is stored.
C29_Witness ==
  \E r \in ReqIds, q \in ReqIds :
    /\ r # q
    /\ reqs[r].kind = "add" /\ reqs[r].status = 200
    /\ reqs[q].kind = "add" /\ reqs[q].status = 200
    /\ reqs[r].userId = reqs[q].userId
    /\ includes(groupRow.members, reqs[r].userId)

\* C30: an UPDATE of the stored members and tree_root runs only for a
\* request whose ENS-owner check has succeeded.
C30_WriteOnlyAfterOwnerCheck ==
  [][\A r \in ReqIds :
       (reqs[r].pc = "update" /\ reqs'[r].pc = "done") => reqs[r].ownerChecked]_vars

====
